---------------------------- MODULE Spec2Model ----------------------------
(***************************************************************************)
(* EventCycle-RISCV-Sim: gate-level logic simulation (src/src.py).         *)
(*                                                                         *)
(* The module models the logic primitives, the Circuit builder and the     *)
(* five simulators (TwoListSimulator, SingleListEventSimulator,            *)
(* SingleListGateSimulator, ZeroDelaySimulator, ThreadedSimulator).  Each  *)
(* simulate_vector is modelled loop iteration by loop iteration, the       *)
(* position inside the call being the simulator's pc field.  A driver in   *)
(* the style of the example usage (src/src.py lines 521-537) builds the    *)
(* simulators on one circuit and feeds every one of them the same vectors. *)
(*                                                                         *)
(* Python lists indexed by net id are functions on 0..n-1; Python lists    *)
(* used as queues or stacks are sequences; a Gate object in a queue is its *)
(* gate id.                                                                *)
(***************************************************************************)
EXTENDS Integers, Sequences, FiniteSets, TLC

(***************************************************************************)
(* Logic values (src/src.py lines 3-7).                                    *)
(***************************************************************************)
LOGIC_ZERO == "0"
LOGIC_ONE == "1"
LOGIC_U == "U"
LOGIC_X == "X"

(***************************************************************************)
(* Logic primitives.  `inputs` is a sequence of net ids, `values` the      *)
(* net-values array.  The loops of logic_and, logic_or and logic_xor       *)
(* return at the first input that decides them, so they are followed       *)
(* input by input, from position k.                                        *)
(***************************************************************************)
RECURSIVE logic_and_from(_, _, _, _)
logic_and_from(inputs, values, logic_model, k) ==
    IF k > Len(inputs) THEN LOGIC_ONE
    ELSE IF values[inputs[k]] = LOGIC_ZERO THEN LOGIC_ZERO
    ELSE IF logic_model = "3val" /\ values[inputs[k]] = LOGIC_U THEN LOGIC_U
    ELSE logic_and_from(inputs, values, logic_model, k + 1)

logic_and(inputs, values, logic_model) ==
    logic_and_from(inputs, values, logic_model, 1)

RECURSIVE logic_or_from(_, _, _, _)
logic_or_from(inputs, values, logic_model, k) ==
    IF k > Len(inputs) THEN LOGIC_ZERO
    ELSE IF values[inputs[k]] = LOGIC_ONE THEN LOGIC_ONE
    ELSE IF logic_model = "3val" /\ values[inputs[k]] = LOGIC_U THEN LOGIC_U
    ELSE logic_or_from(inputs, values, logic_model, k + 1)

logic_or(inputs, values, logic_model) ==
    logic_or_from(inputs, values, logic_model, 1)

logic_not_single(val, logic_model) ==
    IF logic_model = "3val" /\ val = LOGIC_U THEN LOGIC_U
    ELSE IF val = LOGIC_ZERO THEN LOGIC_ONE
    ELSE IF val = LOGIC_ONE THEN LOGIC_ZERO
    ELSE LOGIC_X

logic_not(input_idx, values, logic_model) ==
    IF logic_model = "3val" /\ values[input_idx] = LOGIC_U THEN LOGIC_U
    ELSE IF values[input_idx] = LOGIC_ZERO THEN LOGIC_ONE
    ELSE IF values[input_idx] = LOGIC_ONE THEN LOGIC_ZERO
    ELSE LOGIC_X

logic_nand(inputs, values, logic_model) ==
    LET andv == logic_and(inputs, values, logic_model)
    IN  IF andv = LOGIC_U THEN LOGIC_U ELSE logic_not_single(andv, logic_model)

logic_nor(inputs, values, logic_model) ==
    LET orv == logic_or(inputs, values, logic_model)
    IN  IF orv = LOGIC_U THEN LOGIC_U ELSE logic_not_single(orv, logic_model)

\* The U test of logic_xor does not look at the logic model.
RECURSIVE logic_xor_from(_, _, _, _)
logic_xor_from(inputs, values, k, ones) ==
    IF k > Len(inputs) THEN (IF ones % 2 = 1 THEN LOGIC_ONE ELSE LOGIC_ZERO)
    ELSE IF values[inputs[k]] = LOGIC_U THEN LOGIC_U
    ELSE logic_xor_from(inputs, values, k + 1,
                        IF values[inputs[k]] = LOGIC_ONE THEN ones + 1 ELSE ones)

logic_xor(inputs, values, logic_model) ==
    logic_xor_from(inputs, values, 1, 0)

logic_xnor(inputs, values, logic_model) ==
    LET xorv == logic_xor(inputs, values, logic_model)
    IN  IF xorv = LOGIC_U THEN LOGIC_U ELSE logic_not_single(xorv, logic_model)

GATE_TYPES == {"AND", "OR", "NOT", "NAND", "NOR", "XOR", "XNOR"}

\* GATE_FUNCS[type](inputs, values, logic_model), NOT excepted.
GATE_FUNCS(type, inputs, values, logic_model) ==
    CASE type = "AND"  -> logic_and(inputs, values, logic_model)
      [] type = "OR"   -> logic_or(inputs, values, logic_model)
      [] type = "NAND" -> logic_nand(inputs, values, logic_model)
      [] type = "NOR"  -> logic_nor(inputs, values, logic_model)
      [] type = "XOR"  -> logic_xor(inputs, values, logic_model)
      [] type = "XNOR" -> logic_xnor(inputs, values, logic_model)

(***************************************************************************)
(* Gate: a record [id, type, inputs, output].                              *)
(***************************************************************************)
Gate(gate_id, gate_type, inputs, output) ==
    [id |-> gate_id, type |-> gate_type, inputs |-> inputs, output |-> output]

Gate_simulate(g, net_values, logic_model) ==
    IF g.type = "NOT" THEN logic_not(g.inputs[1], net_values, logic_model)
    ELSE GATE_FUNCS(g.type, g.inputs, net_values, logic_model)

(***************************************************************************)
(* Circuit: the netlist and its builder.  net_names and gates are          *)
(* sequences, so net id n is named net_names[n + 1] and gate id i is       *)
(* gates[i + 1]; fanout is the defaultdict, a function on the nets that    *)
(* have an entry.                                                          *)
(***************************************************************************)
Circuit ==
    [net_id_map |-> << >>, net_names |-> << >>, next_net_id |-> 0,
     gates |-> << >>, primary_inputs |-> << >>, primary_outputs |-> << >>,
     fanout |-> << >>]

add_net(c, name) ==
    IF name \in DOMAIN c.net_id_map THEN c
    ELSE [c EXCEPT !.net_id_map = [n \in DOMAIN c.net_id_map \cup {name} |->
                                     IF n = name THEN c.next_net_id
                                     ELSE c.net_id_map[n]],
                   !.net_names = Append(c.net_names, name),
                   !.next_net_id = c.next_net_id + 1]

RECURSIVE add_nets(_, _)
add_nets(c, names) ==
    IF names = << >> THEN c ELSE add_nets(add_net(c, Head(names)), Tail(names))

net_ids(c, names) == [k \in 1..Len(names) |-> c.net_id_map[names[k]]]

fanout_of(c, net) == IF net \in DOMAIN c.fanout THEN c.fanout[net] ELSE << >>

\* for net in input_ids: self.fanout[net].append(gate)
RECURSIVE fanout_append(_, _, _)
fanout_append(fanout, input_ids, gate_id) ==
    IF input_ids = << >> THEN fanout
    ELSE LET net == Head(input_ids)
             old == IF net \in DOMAIN fanout THEN fanout[net] ELSE << >>
         IN  fanout_append([n \in DOMAIN fanout \cup {net} |->
                              IF n = net THEN Append(old, gate_id) ELSE fanout[n]],
                           Tail(input_ids), gate_id)

add_gate(c, gate_type, input_names, output_name) ==
    LET c1 == add_net(add_nets(c, input_names), output_name)
        input_ids == net_ids(c1, input_names)
        out_id == c1.net_id_map[output_name]
        gate == Gate(Len(c1.gates), gate_type, input_ids, out_id)
    IN  [c1 EXCEPT !.gates = Append(c1.gates, gate),
                   !.fanout = fanout_append(c1.fanout, input_ids, gate.id)]

set_primary_inputs(c, input_names) ==
    LET c1 == add_nets(c, input_names)
    IN  [c1 EXCEPT !.primary_inputs = net_ids(c1, input_names)]

set_primary_outputs(c, output_names) ==
    LET c1 == add_nets(c, output_names)
    IN  [c1 EXCEPT !.primary_outputs = net_ids(c1, output_names)]

get_net_name(c, net_id) == c.net_names[net_id + 1]

get_gate_by_output(c, net_id) ==
    SelectSeq(c.gates, LAMBDA g : g.output = net_id)

gate_of(c, gate_id) == c.gates[gate_id + 1]


(***************************************************************************)
(* The circuits of the bundled drivers, built the way the drivers build    *)
(* them, and further small circuits used as test inputs.                   *)
(***************************************************************************)
\* examples/comb_basic.py: AND(A,B) -> Y
comb_basic ==
    add_gate(set_primary_outputs(set_primary_inputs(Circuit, <<"A", "B">>),
                                 <<"Y">>),
             "AND", <<"A", "B">>, "Y")

\* src.py example usage: AND(A,B) -> X, OR(X,C) -> Y
cascade ==
    add_gate(add_gate(set_primary_outputs(
                          set_primary_inputs(Circuit, <<"A", "B", "C">>), <<"Y">>),
                      "AND", <<"A", "B">>, "X"),
             "OR", <<"X", "C">>, "Y")

\* examples/multi_level.py: AND(A,B) -> X1, OR(C,D) -> X2, XOR(X1,X2) -> Y
multi_level ==
    add_gate(add_gate(add_gate(set_primary_outputs(
                 set_primary_inputs(Circuit, <<"A", "B", "C", "D">>), <<"Y">>),
                 "AND", <<"A", "B">>, "X1"),
                 "OR", <<"C", "D">>, "X2"),
             "XOR", <<"X1", "X2">>, "Y")

\* test input: NOT(A) -> Y
inverter ==
    add_gate(set_primary_outputs(set_primary_inputs(Circuit, <<"A">>), <<"Y">>),
             "NOT", <<"A">>, "Y")

\* test input: AND(A,B) -> X, NOT(X) -> Y
and_not ==
    add_gate(add_gate(set_primary_outputs(
                          set_primary_inputs(Circuit, <<"A", "B">>), <<"Y">>),
                      "AND", <<"A", "B">>, "X"),
             "NOT", <<"X">>, "Y")

\* test input with reconvergent fanout: NOT(A) -> X, AND(A,X) -> Y
reconvergent ==
    add_gate(add_gate(set_primary_outputs(
                          set_primary_inputs(Circuit, <<"A">>), <<"Y">>),
                      "NOT", <<"A">>, "X"),
             "AND", <<"A", "X">>, "Y")

\* test input: OR(A,B) -> Y
or_basic ==
    add_gate(set_primary_outputs(set_primary_inputs(Circuit, <<"A", "B">>),
                                 <<"Y">>),
             "OR", <<"A", "B">>, "Y")

\* test input: NOT(A) -> B, NOT(B) -> C, AND(B,C) -> Y; the drivers of the
\* AND gate have different depths
uneven ==
    add_gate(add_gate(add_gate(set_primary_outputs(
                 set_primary_inputs(Circuit, <<"A">>), <<"Y">>),
                 "NOT", <<"A">>, "B"),
                 "NOT", <<"B">>, "C"),
             "AND", <<"B", "C">>, "Y")

\* test input: NOT(A) -> N, NOT(B) -> N, NOT(N) -> Y; net N has two drivers
wired ==
    add_gate(add_gate(add_gate(set_primary_outputs(
                 set_primary_inputs(Circuit, <<"A", "B">>), <<"Y">>),
                 "NOT", <<"A">>, "N"),
                 "NOT", <<"B">>, "N"),
             "NOT", <<"N">>, "Y")

(***************************************************************************)
(* Helpers for the Python containers.                                      *)
(***************************************************************************)
Range(s) == {s[k] : k \in DOMAIN s}

InSeq(x, s) == \E k \in DOMAIN s : s[k] = x

\* outputs_of over the wrong list: the entry maps the primary inputs.
outputs_of_inputs(c, net_values) ==
    [nid \in Range(c.primary_inputs) |-> net_values[nid]]

\* {nid: net_values[nid] for nid in primary_outputs}
outputs_of(c, net_values) ==
    [nid \in Range(c.primary_outputs) |-> net_values[nid]]

\* input_vector.get(net, default).  A vector is a dict; its keys are net ids
\* (keyed = "id") or net names (keyed = "name", map indexed by the id of the
\* named net).  get looks an integer net id up, which no string key equals.
vector_get(input_vector, net, default) ==
    IF input_vector.keyed = "id" /\ net \in DOMAIN input_vector.map
    THEN input_vector.map[net]
    ELSE default

\* The hazard pass that ends simulate_vector of every simulator but Zero-Delay.
RECURSIVE detect_hazards_from(_, _, _, _, _)
detect_hazards_from(net, num_nets, change_count, old_values, net_values) ==
    IF net >= num_nets THEN << >>
    ELSE LET rest == detect_hazards_from(net + 1, num_nets, change_count,
                                         old_values, net_values)
         IN  IF change_count[net] > 1
             THEN IF old_values[net] = net_values[net]
                  THEN <<(<<net, "static">>)>> \o rest
                  ELSE <<(<<net, "dynamic">>)>> \o rest
             ELSE rest

\* detect_hazards with the threshold one too low: every changed net is named.
detect_hazards_any(num_nets, change_count, old_values, net_values) ==
    SelectSeq([k \in 1..num_nets |->
                  <<k - 1, IF old_values[k - 1] = net_values[k - 1]
                           THEN "static" ELSE "dynamic">>],
              LAMBDA h : change_count[h[1]] > 0)

detect_hazards(num_nets, change_count, old_values, net_values) ==
    detect_hazards_from(0, num_nets, change_count, old_values, net_values)

(***************************************************************************)
(* State.  The driver: the circuit, the logic model, the simulators built  *)
(* on it (sims, in the order they are run), the list of the vectors handed *)
(* out so far, the last of them being the one applied, and the position in *)
(* sims of the simulator to run next.  tl, sle, slg, zd, th: the five      *)
(* simulator objects, each with the locals of its running simulate_vector. *)
(***************************************************************************)
VARIABLES circuit, logic_model, sims, vectors, turn, tl, sle, slg, zd, th

vars == <<circuit, logic_model, sims, vectors, turn, tl, sle, slg, zd, th>>

driver == <<circuit, logic_model, sims, vectors>>

\* The vector being applied, and the number of vectors handed out.
vec == vectors[Len(vectors)]

calls == Len(vectors)

\* The simulator whose turn it is.
current == IF turn \in DOMAIN sims THEN sims[turn] ELSE "none"

(***************************************************************************)
(* TwoListSimulator.                                                       *)
(***************************************************************************)
TwoListSimulator(c, lm) ==
    [net_values |-> [n \in 0..(c.next_net_id - 1) |->
                        IF lm = "3val" THEN LOGIC_U ELSE LOGIC_ZERO],
     net_mark |-> [n \in 0..(c.next_net_id - 1) |-> lm = "2val"],
     num_nets |-> c.next_net_id,
     gate_sim_count |-> 0,
     output_log |-> << >>,
     intermediate_log |-> << >>,
     \* locals of simulate_vector
     pc |-> "idle", event_queue |-> << >>, gate_queue |-> << >>,
     old_values |-> << >>, change_count |-> << >>, time_unit |-> 0,
     hazards |-> << >>]

\* TL_input_events with the mark test left out: events for changed inputs
\* only, as the simulators without mark flags queue them.
RECURSIVE TL_input_events_unmarked(_, _, _, _, _, _)
TL_input_events_unmarked(c, lm, input_vector, net_values, st, k) ==
    IF k > Len(c.primary_inputs) THEN st
    ELSE LET net == c.primary_inputs[k]
             val == vector_get(input_vector, net, net_values[net])
             ev  == [marker |-> FALSE, net |-> net, value |-> val]
         IN  TL_input_events_unmarked(c, lm, input_vector, net_values,
                 IF val # net_values[net]
                 THEN [st EXCEPT !.event_queue = Append(st.event_queue, ev)]
                 ELSE st,
                 k + 1)

\* Lines 181-189: the events for changed or marked inputs, from the k-th
\* primary input on; st = [event_queue, net_mark].
RECURSIVE TL_input_events(_, _, _, _, _, _)
TL_input_events(c, lm, input_vector, net_values, st, k) ==
    IF k > Len(c.primary_inputs) THEN st
    ELSE LET net == c.primary_inputs[k]
             val == vector_get(input_vector, net, net_values[net])
             ev  == [marker |-> FALSE, net |-> net, value |-> val]
         IN  TL_input_events(c, lm, input_vector, net_values,
                 IF lm = "2val"
                 THEN IF val # net_values[net] \/ st.net_mark[net]
                      THEN [event_queue |-> Append(st.event_queue, ev),
                            net_mark |-> [st.net_mark EXCEPT ![net] = FALSE]]
                      ELSE st
                 ELSE IF val # net_values[net]
                      THEN [st EXCEPT !.event_queue = Append(st.event_queue, ev)]
                      ELSE st,
                 k + 1)

\* append_unique with the membership test left out.
append_all(queue, gs) == queue \o gs

\* for g in fanout[net_id]: if g not in gate_queue: gate_queue.append(g)
RECURSIVE append_unique(_, _)
append_unique(queue, gs) ==
    IF gs = << >> THEN queue
    ELSE append_unique(IF InSeq(Head(gs), queue) THEN queue
                       ELSE Append(queue, Head(gs)),
                       Tail(gs))

\* Lines 176-190.
TL_Call ==
    /\ current = "TL" /\ tl.pc = "idle"
    /\ LET st == TL_input_events(circuit, logic_model, vec, tl.net_values,
                     [event_queue |-> << >>, net_mark |-> tl.net_mark], 1)
       IN  tl' = [tl EXCEPT !.event_queue = st.event_queue,
                            !.net_mark = st.net_mark,
                            !.gate_queue = << >>,
                            !.old_values = tl.net_values,
                            !.change_count = [n \in 0..(tl.num_nets - 1) |-> 0],
                            !.time_unit = 0,
                            !.pc = "outer"]
    /\ UNCHANGED <<driver, turn, sle, slg, zd, th>>

\* Line 192, loop entered.
TL_Outer ==
    /\ tl.pc = "outer" /\ tl.event_queue # << >>
    /\ tl' = [tl EXCEPT !.pc = "events"]
    /\ UNCHANGED <<driver, turn, sle, slg, zd, th>>

\* Lines 195-202: one event.
TL_Event ==
    /\ tl.pc = "events" /\ tl.event_queue # << >>
    /\ LET ev == Head(tl.event_queue)
           changed == ev.value # tl.net_values[ev.net]
       IN  tl' = [tl EXCEPT
                    !.event_queue = Tail(tl.event_queue),
                    !.net_values = IF changed
                                   THEN [tl.net_values EXCEPT ![ev.net] = ev.value]
                                   ELSE tl.net_values,
                    !.change_count = IF changed
                                     THEN [tl.change_count EXCEPT ![ev.net] = @ + 1]
                                     ELSE tl.change_count,
                    !.gate_queue = append_unique(tl.gate_queue,
                                                 fanout_of(circuit, ev.net))]
    /\ UNCHANGED <<driver, turn, sle, slg, zd, th>>

\* Lines 204-206: the events are drained.
TL_EventsDone ==
    /\ tl.pc = "events" /\ tl.event_queue = << >>
    /\ tl' = IF tl.gate_queue # << >>
             THEN [tl EXCEPT !.intermediate_log =
                                 Append(tl.intermediate_log,
                                        <<tl.time_unit,
                                          outputs_of(circuit, tl.net_values)>>),
                             !.pc = "gates"]
             ELSE [tl EXCEPT !.pc = "outer"]
    /\ UNCHANGED <<driver, turn, sle, slg, zd, th>>

\* TL_Gate that evaluates the gate and drops its result: no event is queued
\* for a changed output.
TL_Gate_silent ==
    /\ tl.pc = "gates" /\ tl.gate_queue # << >>
    /\ tl' = [tl EXCEPT !.gate_queue = Tail(tl.gate_queue),
                        !.gate_sim_count = @ + 1]
    /\ UNCHANGED <<driver, turn, sle, slg, zd, th>>

\* Lines 208-213: one gate.
TL_Gate ==
    /\ tl.pc = "gates" /\ tl.gate_queue # << >>
    /\ LET g == gate_of(circuit, Head(tl.gate_queue))
           out_net == g.output
           new_val == Gate_simulate(g, tl.net_values, logic_model)
       IN  tl' = [tl EXCEPT
                    !.gate_queue = Tail(tl.gate_queue),
                    !.gate_sim_count = @ + 1,
                    !.event_queue =
                        IF new_val # tl.net_values[out_net]
                        THEN Append(tl.event_queue,
                                    [marker |-> FALSE, net |-> out_net,
                                     value |-> new_val])
                        ELSE tl.event_queue]
    /\ UNCHANGED <<driver, turn, sle, slg, zd, th>>

\* Line 214: the gates are drained.
TL_GatesDone ==
    /\ tl.pc = "gates" /\ tl.gate_queue = << >>
    /\ tl' = [tl EXCEPT !.time_unit = @ + 1, !.pc = "outer"]
    /\ UNCHANGED <<driver, turn, sle, slg, zd, th>>

\* Lines 216-225: loop left, final outputs, hazards, return.
TL_Return ==
    /\ tl.pc = "outer" /\ tl.event_queue = << >>
    /\ tl' = [tl EXCEPT
                !.output_log = Append(tl.output_log,
                                      outputs_of(circuit, tl.net_values)),
                !.hazards = detect_hazards(tl.num_nets, tl.change_count,
                                           tl.old_values, tl.net_values),
                !.pc = "idle"]
    /\ turn' = turn + 1
    /\ UNCHANGED <<driver, sle, slg, zd, th>>


(***************************************************************************)
(* SingleListEventSimulator.  The queue holds event records and the        *)
(* time-marker; `'marker' in ev` is the marker field.                      *)
(***************************************************************************)
MARKER == [marker |-> TRUE, net |-> -1, value |-> ""]

SingleListEventSimulator(c, lm) ==
    [net_values |-> [n \in 0..(c.next_net_id - 1) |->
                        IF lm = "3val" THEN LOGIC_U ELSE LOGIC_ZERO],
     net_mark |-> [n \in 0..(c.next_net_id - 1) |-> lm = "2val"],
     num_nets |-> c.next_net_id,
     gate_sim_count |-> 0,
     output_log |-> << >>,
     intermediate_log |-> << >>,
     \* locals of simulate_vector
     pc |-> "idle", event_queue |-> << >>,
     old_values |-> << >>, change_count |-> << >>, time_unit |-> 0,
     hazards |-> << >>]

\* Lines 250-258; st = [event_queue, net_mark].
RECURSIVE SLE_input_events(_, _, _, _, _, _)
SLE_input_events(c, lm, input_vector, net_values, st, k) ==
    IF k > Len(c.primary_inputs) THEN st
    ELSE LET net == c.primary_inputs[k]
             val == vector_get(input_vector, net, net_values[net])
             ev  == [marker |-> FALSE, net |-> net, value |-> val]
         IN  SLE_input_events(c, lm, input_vector, net_values,
                 IF lm = "2val"
                 THEN IF val # net_values[net] \/ st.net_mark[net]
                      THEN [event_queue |-> Append(st.event_queue, ev),
                            net_mark |-> [st.net_mark EXCEPT ![net] = FALSE]]
                      ELSE st
                 ELSE IF val # net_values[net]
                      THEN [st EXCEPT !.event_queue = Append(st.event_queue, ev)]
                      ELSE st,
                 k + 1)

\* SLE_exists without the scan: no event is ever found in the queue.
SLE_exists_never(event_queue, out_net, new_out) == FALSE

\* Lines 284-285: an event with this (net, value) is already queued.
SLE_exists(event_queue, out_net, new_out) ==
    \E k \in DOMAIN event_queue :
        /\ ~event_queue[k].marker
        /\ event_queue[k].net = out_net
        /\ event_queue[k].value = new_out

\* Lines 278-287: the fanout gates gs of a consumed event, simulated at once.
RECURSIVE SLE_fanout(_, _, _, _, _)
SLE_fanout(c, lm, net_values, event_queue, gs) ==
    IF gs = << >> THEN event_queue
    ELSE LET g == gate_of(c, Head(gs))
             out_net == g.output
             new_out == Gate_simulate(g, net_values, lm)
         IN  SLE_fanout(c, lm, net_values,
                 IF new_out # net_values[out_net]
                    /\ ~SLE_exists(event_queue, out_net, new_out)
                 THEN Append(event_queue,
                             [marker |-> FALSE, net |-> out_net, value |-> new_out])
                 ELSE event_queue,
                 Tail(gs))

\* Lines 245-262.
SLE_Call ==
    /\ current = "SLE" /\ sle.pc = "idle"
    /\ LET st == SLE_input_events(circuit, logic_model, vec, sle.net_values,
                     [event_queue |-> << >>, net_mark |-> sle.net_mark], 1)
       IN  sle' = [sle EXCEPT !.event_queue = Append(st.event_queue, MARKER),
                              !.net_mark = st.net_mark,
                              !.old_values = sle.net_values,
                              !.change_count = [n \in 0..(sle.num_nets - 1) |-> 0],
                              !.time_unit = 0,
                              !.hazards = << >>,
                              !.pc = "loop"]
    /\ UNCHANGED <<driver, turn, tl, slg, zd, th>>

\* Lines 265-272: the head of the queue is the marker.
SLE_Marker ==
    /\ sle.pc = "loop" /\ sle.event_queue # << >>
    /\ Head(sle.event_queue).marker
    /\ sle' = [sle EXCEPT
                 !.intermediate_log =
                     Append(sle.intermediate_log,
                            <<sle.time_unit, outputs_of(circuit, sle.net_values)>>),
                 !.time_unit = @ + 1,
                 !.event_queue = IF Tail(sle.event_queue) # << >>
                                 THEN Append(Tail(sle.event_queue), MARKER)
                                 ELSE Tail(sle.event_queue)]
    /\ UNCHANGED <<driver, turn, tl, slg, zd, th>>

\* Lines 265-266, 273-287: the head of the queue is an event.
SLE_Event ==
    /\ sle.pc = "loop" /\ sle.event_queue # << >>
    /\ ~Head(sle.event_queue).marker
    /\ LET ev == Head(sle.event_queue)
           changed == ev.value # sle.net_values[ev.net]
           values == IF changed
                     THEN [sle.net_values EXCEPT ![ev.net] = ev.value]
                     ELSE sle.net_values
           gs == fanout_of(circuit, ev.net)
       IN  sle' = [sle EXCEPT
                     !.net_values = values,
                     !.change_count = IF changed
                                      THEN [sle.change_count EXCEPT ![ev.net] = @ + 1]
                                      ELSE sle.change_count,
                     !.gate_sim_count = @ + Len(gs),
                     !.event_queue = SLE_fanout(circuit, logic_model, values,
                                                Tail(sle.event_queue), gs)]
    /\ UNCHANGED <<driver, turn, tl, slg, zd, th>>

\* Lines 289-296.
SLE_Return ==
    /\ sle.pc = "loop" /\ sle.event_queue = << >>
    /\ sle' = [sle EXCEPT
                 !.output_log = Append(sle.output_log,
                                       outputs_of(circuit, sle.net_values)),
                 !.hazards = detect_hazards(sle.num_nets, sle.change_count,
                                            sle.old_values, sle.net_values),
                 !.pc = "idle"]
    /\ turn' = turn + 1
    /\ UNCHANGED <<driver, tl, slg, zd, th>>

(***************************************************************************)
(* SingleListGateSimulator.  The queue holds gate ids and the time-marker  *)
(* (GATE_MARKER); temp_net_values is the dict of pending values, a         *)
(* function on the nets that have one.                                     *)
(*                                                                         *)
(* Line 337 tests `'marker' in elem` on whatever was dequeued.  A Gate     *)
(* object has no __contains__, __iter__ or __getitem__, so for a dequeued  *)
(* gate the test raises TypeError and the call ends there: lines 351-360   *)
(* are never run.  error is how the last call ended, "" for a return.      *)
(***************************************************************************)
GATE_MARKER == -1

SingleListGateSimulator(c, lm) ==
    [net_values |-> [n \in 0..(c.next_net_id - 1) |->
                        IF lm = "3val" THEN LOGIC_U ELSE LOGIC_ZERO],
     num_nets |-> c.next_net_id,
     gate_sim_count |-> 0,
     output_log |-> << >>,
     intermediate_log |-> << >>,
     \* locals of simulate_vector
     pc |-> "idle", gate_queue |-> << >>,
     old_values |-> << >>, change_count |-> << >>,
     temp_net_values |-> << >>, flagged_next |-> {},
     time_unit |-> 0, hazards |-> << >>, error |-> ""]

\* Lines 321-325: commit the changed inputs; st = [net_values, changed_inputs].
RECURSIVE SLG_commit_inputs(_, _, _, _)
SLG_commit_inputs(c, input_vector, st, k) ==
    IF k > Len(c.primary_inputs) THEN st
    ELSE LET net == c.primary_inputs[k]
             val == vector_get(input_vector, net, st.net_values[net])
         IN  SLG_commit_inputs(c, input_vector,
                 IF val # st.net_values[net]
                 THEN [net_values |-> [st.net_values EXCEPT ![net] = val],
                       changed_inputs |-> Append(st.changed_inputs, net)]
                 ELSE st,
                 k + 1)

\* Lines 326-328: every fanout gate of every changed input, duplicates kept.
RECURSIVE SLG_initial_gates(_, _)
SLG_initial_gates(c, changed_inputs) ==
    IF changed_inputs = << >> THEN << >>
    ELSE fanout_of(c, Head(changed_inputs))
         \o SLG_initial_gates(c, Tail(changed_inputs))

\* Lines 339-342: commit the pending values.
SLG_commit(net_values, temp_net_values) ==
    [n \in DOMAIN net_values |->
        IF n \in DOMAIN temp_net_values THEN temp_net_values[n] ELSE net_values[n]]

SLG_count(change_count, net_values, temp_net_values) ==
    [n \in DOMAIN change_count |->
        IF n \in DOMAIN temp_net_values /\ temp_net_values[n] # net_values[n]
        THEN change_count[n] + 1 ELSE change_count[n]]

\* Lines 315-333.
SLG_Call ==
    /\ current = "SLG" /\ slg.pc = "idle"
    /\ LET st == SLG_commit_inputs(circuit, vec,
                     [net_values |-> slg.net_values, changed_inputs |-> << >>], 1)
       IN  slg' = [slg EXCEPT
                     !.old_values = slg.net_values,
                     !.change_count = [n \in 0..(slg.num_nets - 1) |-> 0],
                     !.net_values = st.net_values,
                     !.gate_queue = Append(SLG_initial_gates(circuit,
                                                             st.changed_inputs),
                                           GATE_MARKER),
                     !.temp_net_values = << >>,
                     !.flagged_next = {},
                     !.time_unit = 0,
                     !.hazards = << >>,
                     !.error = "",
                     !.pc = "loop"]
    /\ UNCHANGED <<driver, turn, tl, sle, zd, th>>

\* Lines 336-350: the head of the queue is the marker.
SLG_Marker ==
    /\ slg.pc = "loop" /\ slg.gate_queue # << >>
    /\ Head(slg.gate_queue) = GATE_MARKER
    /\ LET values == SLG_commit(slg.net_values, slg.temp_net_values)
           more == Tail(slg.gate_queue) # << >>
       IN  slg' = [slg EXCEPT
                     !.net_values = values,
                     !.change_count = SLG_count(slg.change_count, slg.net_values,
                                                slg.temp_net_values),
                     !.temp_net_values = << >>,
                     !.intermediate_log =
                         Append(slg.intermediate_log,
                                <<slg.time_unit, outputs_of(circuit, values)>>),
                     !.time_unit = @ + 1,
                     !.gate_queue = IF more
                                    THEN Append(Tail(slg.gate_queue), GATE_MARKER)
                                    ELSE Tail(slg.gate_queue),
                     !.flagged_next = IF more THEN {} ELSE slg.flagged_next]
    /\ UNCHANGED <<driver, turn, tl, sle, zd, th>>

\* Lines 336-337: the head of the queue is a gate, and the marker test
\* raises TypeError.  The exception leaves simulate_vector, and the caller
\* goes on to the next simulator.
SLG_Raise ==
    /\ slg.pc = "loop" /\ slg.gate_queue # << >>
    /\ Head(slg.gate_queue) # GATE_MARKER
    /\ slg' = [slg EXCEPT !.gate_queue = Tail(slg.gate_queue),
                          !.error = "TypeError",
                          !.pc = "idle"]
    /\ turn' = turn + 1
    /\ UNCHANGED <<driver, tl, sle, zd, th>>

\* Lines 362-369.
SLG_Return ==
    /\ slg.pc = "loop" /\ slg.gate_queue = << >>
    /\ slg' = [slg EXCEPT
                 !.output_log = Append(slg.output_log,
                                       outputs_of(circuit, slg.net_values)),
                 !.hazards = detect_hazards(slg.num_nets, slg.change_count,
                                            slg.old_values, slg.net_values),
                 !.pc = "idle"]
    /\ turn' = turn + 1
    /\ UNCHANGED <<driver, tl, sle, zd, th>>


(***************************************************************************)
(* ZeroDelaySimulator.  levels is the dict gate id -> level, a function on *)
(* the gates that were given one; level_queues maps each level to its      *)
(* bucket.                                                                 *)
(***************************************************************************)
Max(a, b) == IF a >= b THEN a ELSE b

\* Lines 387-391: one count per input net and driver gate of that net.
RECURSIVE ZD_drivers(_, _, _)
ZD_drivers(c, inputs, k) ==
    IF k > Len(inputs) THEN 0
    ELSE Len(get_gate_by_output(c, inputs[k])) + ZD_drivers(c, inputs, k + 1)

ZD_indeg(c) ==
    [i \in 0..(Len(c.gates) - 1) |-> ZD_drivers(c, gate_of(c, i).inputs, 1)]

\* Lines 395-398: the gates of in-degree 0, from gate id i on;
\* st = [indeg, queue, levels, max_level].
RECURSIVE ZD_level_zero(_, _, _)
ZD_level_zero(c, st, i) ==
    IF i >= Len(c.gates) THEN st
    ELSE ZD_level_zero(c,
             IF st.indeg[i] = 0
             THEN [st EXCEPT !.levels = [j \in DOMAIN st.levels \cup {i} |->
                                            IF j = i THEN 0 ELSE st.levels[j]],
                             !.queue = Append(st.queue, i)]
             ELSE st,
             i + 1)

\* ZD_level_fanout that gives a gate the level of the last of its drivers.
RECURSIVE ZD_level_fanout_same(_, _, _)
ZD_level_fanout_same(st, lvl, hs) ==
    IF hs = << >> THEN st
    ELSE LET h == Head(hs)
             st1 == [st EXCEPT !.indeg[h] = @ - 1]
         IN  ZD_level_fanout_same(
                 IF st1.indeg[h] = 0
                 THEN [st1 EXCEPT !.levels = [j \in DOMAIN st.levels \cup {h} |->
                                                 IF j = h THEN lvl
                                                 ELSE st.levels[j]],
                                  !.queue = Append(st.queue, h)]
                 ELSE st1,
                 lvl, Tail(hs))

\* Lines 404-408: the fanout hs of a gate of level lvl.
RECURSIVE ZD_level_fanout(_, _, _)
ZD_level_fanout(st, lvl, hs) ==
    IF hs = << >> THEN st
    ELSE LET h == Head(hs)
             st1 == [st EXCEPT !.indeg[h] = @ - 1]
         IN  ZD_level_fanout(
                 IF st1.indeg[h] = 0
                 THEN [st1 EXCEPT !.levels = [j \in DOMAIN st.levels \cup {h} |->
                                                 IF j = h THEN lvl + 1
                                                 ELSE st.levels[j]],
                                  !.queue = Append(st.queue, h)]
                 ELSE st1,
                 lvl, Tail(hs))

\* Lines 399-408.
RECURSIVE ZD_level_loop(_, _)
ZD_level_loop(c, st) ==
    IF st.queue = << >> THEN st
    ELSE LET g == gate_of(c, Head(st.queue))
             lvl == st.levels[g.id]
         IN  ZD_level_loop(c,
                 ZD_level_fanout([st EXCEPT !.queue = Tail(st.queue),
                                            !.max_level = Max(st.max_level, lvl)],
                                 lvl, fanout_of(c, g.output)))

\* Lines 386-408.
ZD_levelize(c) ==
    ZD_level_loop(c, ZD_level_zero(c, [indeg |-> ZD_indeg(c), queue |-> << >>,
                                       levels |-> << >>, max_level |-> 0], 0))

\* Line 381: the net values start at 0 in both logic models.
ZeroDelaySimulator(c, lm) ==
    [net_values |-> [n \in 0..(c.next_net_id - 1) |-> LOGIC_ZERO],
     num_nets |-> c.next_net_id,
     output_log |-> << >>,
     gate_sim_count |-> 0,
     intermediate_log |-> << >>,
     levels |-> ZD_levelize(c).levels,
     max_level |-> ZD_levelize(c).max_level,
     \* locals of simulate_vector
     pc |-> "idle", hazards |-> << >>, old_values |-> << >>,
     level_queues |-> << >>, iteration |-> FALSE, pass_num |-> 0, lvl |-> 0]

\* ZD_level that forgets the levels: every gate is of level 0.
ZD_level_default(levels, gate_id) == 0

\* self.levels.get(g.id, 0)
ZD_level(levels, gate_id) ==
    IF gate_id \in DOMAIN levels THEN levels[gate_id] ELSE 0

\* Lines 419-422: the fanout gs of a changed primary input.
RECURSIVE ZD_schedule_inputs(_, _, _)
ZD_schedule_inputs(levels, level_queues, gs) ==
    IF gs = << >> THEN level_queues
    ELSE LET g == Head(gs)
             lvl == ZD_level(levels, g)
         IN  ZD_schedule_inputs(levels,
                 IF InSeq(g, level_queues[lvl]) THEN level_queues
                 ELSE [level_queues EXCEPT ![lvl] = Append(@, g)],
                 Tail(gs))

\* Lines 415-422; st = [net_values, level_queues].
RECURSIVE ZD_commit_inputs(_, _, _, _, _)
ZD_commit_inputs(c, levels, input_vector, st, k) ==
    IF k > Len(c.primary_inputs) THEN st
    ELSE LET net == c.primary_inputs[k]
             new_val == vector_get(input_vector, net, st.net_values[net])
         IN  ZD_commit_inputs(c, levels, input_vector,
                 IF new_val # st.net_values[net]
                 THEN [net_values |-> [st.net_values EXCEPT ![net] = new_val],
                       level_queues |-> ZD_schedule_inputs(levels, st.level_queues,
                                                           fanout_of(c, net))]
                 ELSE st,
                 k + 1)

\* ZD_schedule with the scheduling left out: the fanout of a changed output
\* is never queued.
ZD_schedule_nothing(levels, st, lvl, hs) == st

\* Lines 435-440: the fanout hs of a gate of level lvl whose output changed;
\* st = [level_queues, iteration].
RECURSIVE ZD_schedule(_, _, _, _)
ZD_schedule(levels, st, lvl, hs) ==
    IF hs = << >> THEN st
    ELSE LET h == Head(hs)
             h_lvl == ZD_level(levels, h)
         IN  ZD_schedule(levels,
                 [iteration |-> IF h_lvl < lvl THEN TRUE ELSE st.iteration,
                  level_queues |->
                      IF InSeq(h, st.level_queues[h_lvl]) THEN st.level_queues
                      ELSE [st.level_queues EXCEPT ![h_lvl] = Append(@, h)]],
                 lvl, Tail(hs))

\* The evaluation counter is kept up to MaxCount; counts above it are folded
\* into MaxCount, so that a call that never returns is a cycle of states.
MaxCount == 40

\* ZD_count that counts an evaluation twice.
ZD_count_twice(n) == IF n < MaxCount THEN n + 2 ELSE n

ZD_count(n) == IF n < MaxCount THEN n + 1 ELSE n

\* Lines 410-424.
ZD_Call ==
    /\ current = "ZD" /\ zd.pc = "idle"
    /\ LET st == ZD_commit_inputs(circuit, zd.levels, vec,
                     [net_values |-> zd.net_values,
                      level_queues |-> [l \in 0..zd.max_level |-> << >>]], 1)
       IN  zd' = [zd EXCEPT !.hazards = << >>,
                            !.old_values = zd.net_values,
                            !.net_values = st.net_values,
                            !.level_queues = st.level_queues,
                            !.iteration = TRUE,
                            !.pass_num = 0,
                            !.pc = "while"]
    /\ UNCHANGED <<driver, turn, tl, sle, slg, th>>

\* Lines 426-428: a sweep over the levels starts.
ZD_Pass ==
    /\ zd.pc = "while" /\ zd.iteration /\ zd.pass_num < 2
    /\ zd' = [zd EXCEPT !.iteration = FALSE, !.lvl = 0, !.pc = "sweep"]
    /\ UNCHANGED <<driver, turn, tl, sle, slg, th>>

\* Lines 429-440: one gate of the bucket of level lvl.
ZD_Gate ==
    /\ zd.pc = "sweep" /\ zd.lvl <= zd.max_level
    /\ zd.level_queues[zd.lvl] # << >>
    /\ LET g == gate_of(circuit, Head(zd.level_queues[zd.lvl]))
           new_val == Gate_simulate(g, zd.net_values, logic_model)
           popped == [zd.level_queues EXCEPT ![zd.lvl] = Tail(@)]
           st == ZD_schedule(zd.levels,
                             [iteration |-> zd.iteration, level_queues |-> popped],
                             zd.lvl, fanout_of(circuit, g.output))
       IN  zd' = IF new_val # zd.net_values[g.output]
                 THEN [zd EXCEPT !.gate_sim_count = ZD_count(@),
                                 !.net_values[g.output] = new_val,
                                 !.level_queues = st.level_queues,
                                 !.iteration = st.iteration]
                 ELSE [zd EXCEPT !.gate_sim_count = ZD_count(@),
                                 !.level_queues = popped]
    /\ UNCHANGED <<driver, turn, tl, sle, slg, th>>

\* Lines 428-429: the bucket of level lvl is empty, on to the next level.
ZD_NextLevel ==
    /\ zd.pc = "sweep" /\ zd.lvl <= zd.max_level
    /\ zd.level_queues[zd.lvl] = << >>
    /\ zd' = [zd EXCEPT !.lvl = @ + 1]
    /\ UNCHANGED <<driver, turn, tl, sle, slg, th>>

\* Line 441: the sweep is over.
ZD_PassDone ==
    /\ zd.pc = "sweep" /\ zd.lvl > zd.max_level
    /\ zd' = [zd EXCEPT !.pass_num = @ + 1, !.pc = "while"]
    /\ UNCHANGED <<driver, turn, tl, sle, slg, th>>

\* ZD_Return that logs the outputs in intermediate_log too, as the
\* simulators with time units do.
ZD_Return_logging ==
    /\ zd.pc = "while" /\ ~(zd.iteration /\ zd.pass_num < 2)
    /\ zd' = [zd EXCEPT
                !.intermediate_log = Append(zd.intermediate_log,
                                            <<0, outputs_of(circuit, zd.net_values)>>),
                !.output_log = Append(zd.output_log,
                                      outputs_of(circuit, zd.net_values)),
                !.pc = "idle"]
    /\ turn' = turn + 1
    /\ UNCHANGED <<driver, tl, sle, slg, th>>

\* Lines 426, 442-444: loop left, final outputs, return of the empty list.
ZD_Return ==
    /\ zd.pc = "while" /\ ~(zd.iteration /\ zd.pass_num < 2)
    /\ zd' = [zd EXCEPT
                !.output_log = Append(zd.output_log,
                                      outputs_of(circuit, zd.net_values)),
                !.pc = "idle"]
    /\ turn' = turn + 1
    /\ UNCHANGED <<driver, tl, sle, slg, th>>

(***************************************************************************)
(* ThreadedSimulator.  A NetEventTask is the record [net, value], a        *)
(* GateTask the gate id; the stacks grow at the end of the sequence.       *)
(***************************************************************************)
ThreadedSimulator(c, lm) ==
    [net_values |-> [n \in 0..(c.next_net_id - 1) |->
                        IF lm = "3val" THEN LOGIC_U ELSE LOGIC_ZERO],
     num_nets |-> c.next_net_id,
     event_stack |-> << >>,
     gate_stack |-> << >>,
     gate_sim_count |-> 0,
     output_log |-> << >>,
     \* locals of simulate_vector
     pc |-> "idle", hazards |-> << >>, old_values |-> << >>,
     change_count |-> << >>]

\* Lines 486-489: a net event for every changed input.
RECURSIVE TH_input_events(_, _, _, _, _)
TH_input_events(c, input_vector, net_values, event_stack, k) ==
    IF k > Len(c.primary_inputs) THEN event_stack
    ELSE LET net == c.primary_inputs[k]
             new_val == vector_get(input_vector, net, net_values[net])
         IN  TH_input_events(c, input_vector, net_values,
                 IF new_val # net_values[net]
                 THEN Append(event_stack, [net |-> net, value |-> new_val])
                 ELSE event_stack,
                 k + 1)

\* Lines 463-465, 486-489.
TH_Call ==
    /\ current = "TH" /\ th.pc = "idle"
    /\ th' = [th EXCEPT
                !.hazards = << >>,
                !.old_values = th.net_values,
                !.change_count = [n \in 0..(th.num_nets - 1) |-> 0],
                !.event_stack = TH_input_events(circuit, vec, th.net_values,
                                                th.event_stack, 1),
                !.pc = "loop"]
    /\ UNCHANGED <<driver, turn, tl, sle, slg, zd>>

\* TH_NetEventTask on a first-in first-out event list: the oldest net event
\* is taken, not the newest.
TH_NetEventTask_fifo ==
    /\ th.pc = "loop" /\ th.event_stack # << >>
    /\ LET task == Head(th.event_stack)
           changed == task.value # th.net_values[task.net]
       IN  th' = [th EXCEPT
                    !.event_stack = Tail(th.event_stack),
                    !.net_values = IF changed
                                   THEN [th.net_values EXCEPT ![task.net] = task.value]
                                   ELSE th.net_values,
                    !.change_count = IF changed
                                     THEN [th.change_count EXCEPT ![task.net] = @ + 1]
                                     ELSE th.change_count,
                    !.gate_stack = th.gate_stack \o fanout_of(circuit, task.net)]
    /\ UNCHANGED <<driver, turn, tl, sle, slg, zd>>

\* Lines 491-493, 496 and NetEventTask.__call__ (470-475).
TH_NetEventTask ==
    /\ th.pc = "loop" /\ th.event_stack # << >>
    /\ LET task == th.event_stack[Len(th.event_stack)]
           changed == task.value # th.net_values[task.net]
       IN  th' = [th EXCEPT
                    !.event_stack = SubSeq(th.event_stack, 1,
                                           Len(th.event_stack) - 1),
                    !.net_values = IF changed
                                   THEN [th.net_values EXCEPT ![task.net] = task.value]
                                   ELSE th.net_values,
                    !.change_count = IF changed
                                     THEN [th.change_count EXCEPT ![task.net] = @ + 1]
                                     ELSE th.change_count,
                    !.gate_stack = th.gate_stack \o fanout_of(circuit, task.net)]
    /\ UNCHANGED <<driver, turn, tl, sle, slg, zd>>

\* Lines 491-496 and GateTask.__call__ (479-484).
TH_GateTask ==
    /\ th.pc = "loop" /\ th.event_stack = << >> /\ th.gate_stack # << >>
    /\ LET g == gate_of(circuit, th.gate_stack[Len(th.gate_stack)])
           out_net == g.output
           new_val == Gate_simulate(g, th.net_values, logic_model)
       IN  th' = [th EXCEPT
                    !.gate_stack = SubSeq(th.gate_stack, 1, Len(th.gate_stack) - 1),
                    !.gate_sim_count = @ + 1,
                    !.event_stack =
                        IF new_val # th.net_values[out_net]
                        THEN Append(th.event_stack,
                                    [net |-> out_net, value |-> new_val])
                        ELSE th.event_stack]
    /\ UNCHANGED <<driver, turn, tl, sle, slg, zd>>

\* Lines 491, 497-504.
TH_Return ==
    /\ th.pc = "loop" /\ th.event_stack = << >> /\ th.gate_stack = << >>
    /\ th' = [th EXCEPT
                !.output_log = Append(th.output_log,
                                      outputs_of(circuit, th.net_values)),
                !.hazards = detect_hazards(th.num_nets, th.change_count,
                                           th.old_values, th.net_values),
                !.pc = "idle"]
    /\ turn' = turn + 1
    /\ UNCHANGED <<driver, tl, sle, slg, zd>>


(***************************************************************************)
(* The driver (src/src.py lines 521-533, examples/comb_basic.py lines      *)
(* 10-20): simulators built on one circuit with one logic model, then a    *)
(* vector at a time handed to each of them in turn.  The simulators do not *)
(* share state, so running them vector by vector or simulator by simulator *)
(* gives each of them the same calls.  A call that raises ends the turn of *)
(* its simulator like a call that returns: the driver is a caller that     *)
(* carries on, and a driver that stops at the exception runs a prefix of   *)
(* the same behaviour.                                                     *)
(***************************************************************************)
MaxCalls == 3

ValuesOf(lm) == IF lm = "3val" THEN {LOGIC_ZERO, LOGIC_ONE, LOGIC_U}
                ELSE {LOGIC_ZERO, LOGIC_ONE}

\* The dicts keyed by net id that give every primary input a value.
FullVectors(c, lm) ==
    {[keyed |-> "id", map |-> m] : m \in [Range(c.primary_inputs) -> ValuesOf(lm)]}

\* The dicts a driver may pass: the full dicts keyed by net id, the empty
\* dict, and dicts keyed by net name as the bundled drivers write them.
VectorsOf(c, lm) ==
    FullVectors(c, lm)
    \cup {[keyed |-> "id", map |-> << >>]}
    \cup {[keyed |-> "name", map |-> [n \in Range(c.primary_inputs) |-> v]] :
             v \in {LOGIC_ZERO, LOGIC_ONE}}

ALL_SIMS == <<"TL", "SLE", "SLG", "ZD", "TH">>

Configs ==
    {[circuit |-> comb_basic, logic_model |-> "2val"],
     [circuit |-> comb_basic, logic_model |-> "3val"],
     [circuit |-> cascade, logic_model |-> "2val"],
     [circuit |-> inverter, logic_model |-> "2val"],
     [circuit |-> inverter, logic_model |-> "3val"],
     [circuit |-> and_not, logic_model |-> "2val"],
     [circuit |-> reconvergent, logic_model |-> "2val"],
     [circuit |-> or_basic, logic_model |-> "3val"]}

Construct(cfg, which) ==
    /\ circuit = cfg.circuit
    /\ logic_model = cfg.logic_model
    /\ sims = which
    /\ vectors = << >>
    /\ turn = Len(which) + 1
    /\ tl = TwoListSimulator(cfg.circuit, cfg.logic_model)
    /\ sle = SingleListEventSimulator(cfg.circuit, cfg.logic_model)
    /\ slg = SingleListGateSimulator(cfg.circuit, cfg.logic_model)
    /\ zd = ZeroDelaySimulator(cfg.circuit, cfg.logic_model)
    /\ th = ThreadedSimulator(cfg.circuit, cfg.logic_model)

Init == \E cfg \in Configs : Construct(cfg, ALL_SIMS)

\* for vec in vectors: the next vector, once every simulator has returned.
NextVector ==
    /\ turn > Len(sims) /\ Len(vectors) < MaxCalls
    /\ \E v \in VectorsOf(circuit, logic_model) : vectors' = Append(vectors, v)
    /\ turn' = 1
    /\ UNCHANGED <<circuit, logic_model, sims, tl, sle, slg, zd, th>>

TL_Next == TL_Call \/ TL_Outer \/ TL_Event \/ TL_EventsDone \/ TL_Gate
           \/ TL_GatesDone \/ TL_Return

SLE_Next == SLE_Call \/ SLE_Marker \/ SLE_Event \/ SLE_Return

SLG_Next == SLG_Call \/ SLG_Marker \/ SLG_Raise \/ SLG_Return

ZD_Next == ZD_Call \/ ZD_Pass \/ ZD_Gate \/ ZD_NextLevel \/ ZD_PassDone
           \/ ZD_Return

TH_Next == TH_Call \/ TH_NetEventTask \/ TH_GateTask \/ TH_Return

Next == NextVector \/ TL_Next \/ SLE_Next \/ SLG_Next \/ ZD_Next \/ TH_Next

Spec == Init /\ [][Next]_vars

\* simulate_vector is straight-line code on one thread: a call that has a
\* next step takes it, and the driver hands out its next vector.
FairSpec == Spec /\ WF_vars(Next)

(***************************************************************************)
(* The bundled drivers run as written but with id-keyed vectors: the       *)
(* circuits of src.py and examples/comb_basic.py in 2-valued mode, every   *)
(* vector a full dict, up to MaxRun vectors (the drivers list four).       *)
(***************************************************************************)
MaxRun == 4

ExampleConfigs ==
    {[circuit |-> comb_basic, logic_model |-> "2val"],
     [circuit |-> cascade, logic_model |-> "2val"]}

InitExamples == \E cfg \in ExampleConfigs : Construct(cfg, ALL_SIMS)

NextFullVector ==
    /\ turn > Len(sims) /\ Len(vectors) < MaxRun
    /\ \E v \in FullVectors(circuit, logic_model) : vectors' = Append(vectors, v)
    /\ turn' = 1
    /\ UNCHANGED <<circuit, logic_model, sims, tl, sle, slg, zd, th>>

NextExamples ==
    NextFullVector \/ TL_Next \/ SLE_Next \/ SLG_Next \/ ZD_Next \/ TH_Next

SpecExamples == InitExamples /\ [][NextExamples]_vars

(***************************************************************************)
(* Zero-Delay on circuits that contain a two-gate feedback loop, the only  *)
(* simulator built, as in examples/comb_basic.py line 10.  A running call  *)
(* always takes its next step: the code is one thread with no suspension   *)
(* point, which is the weak fairness of FairSpecLoop.                      *)
(***************************************************************************)
\* test input: NAND(Q,EN) -> P, AND(P,EN) -> Q; no stable state while EN = 1
loop_osc ==
    add_gate(add_gate(set_primary_outputs(
                          set_primary_inputs(Circuit, <<"EN">>), <<"Q">>),
                      "NAND", <<"Q", "EN">>, "P"),
             "AND", <<"P", "EN">>, "Q")

\* test input: the latch NOR(S,QB) -> Q, NOR(R,Q) -> QB
loop_latch ==
    add_gate(add_gate(set_primary_outputs(
                          set_primary_inputs(Circuit, <<"S", "R">>), <<"Q">>),
                      "NOR", <<"S", "QB">>, "Q"),
             "NOR", <<"R", "Q">>, "QB")

\* test input: the latch behind two levelled gates,
\* NOT(A) -> B, NOT(B) -> C, NOR(C,QB) -> Q, NOR(R,Q) -> QB
loop_fed ==
    add_gate(add_gate(add_gate(add_gate(set_primary_outputs(
                 set_primary_inputs(Circuit, <<"A", "R">>), <<"Q">>),
                 "NOT", <<"A">>, "B"),
                 "NOT", <<"B">>, "C"),
                 "NOR", <<"C", "QB">>, "Q"),
             "NOR", <<"R", "Q">>, "QB")

LoopConfigs ==
    {[circuit |-> loop_osc, logic_model |-> "2val"],
     [circuit |-> loop_latch, logic_model |-> "2val"],
     [circuit |-> loop_fed, logic_model |-> "2val"]}

InitLoop == \E cfg \in LoopConfigs : Construct(cfg, <<"ZD">>)

NextLoop == NextVector \/ ZD_Next

SpecLoop == InitLoop /\ [][NextLoop]_vars

FairSpecLoop == SpecLoop /\ WF_vars(NextLoop)

(***************************************************************************)
(* examples/multi_level.py: Zero-Delay, the only simulator built, on the   *)
(* multi-level circuit in 2-valued mode.                                   *)
(***************************************************************************)
InitMulti ==
    Construct([circuit |-> multi_level, logic_model |-> "2val"], <<"ZD">>)

SpecMulti == InitMulti /\ [][NextLoop]_vars

(***************************************************************************)
(* Zero-Delay alone on every circuit above, acyclic or with a loop.        *)
(***************************************************************************)
ZeroDelayConfigs ==
    Configs \cup LoopConfigs
    \cup {[circuit |-> multi_level, logic_model |-> "2val"],
          [circuit |-> uneven, logic_model |-> "2val"],
          [circuit |-> wired, logic_model |-> "2val"]}

InitZeroDelay == \E cfg \in ZeroDelayConfigs : Construct(cfg, <<"ZD">>)

SpecZeroDelay == InitZeroDelay /\ [][NextLoop]_vars

(***************************************************************************)
(* Properties.  What they speak about: the simulator object of a name, the *)
(* simulators whose call on the current vector has ended, and those whose  *)
(* call returned (a call of Single-List Gate may end in an exception).     *)
(***************************************************************************)
SIM(name) ==
    CASE name = "TL" -> tl
      [] name = "SLE" -> sle
      [] name = "SLG" -> slg
      [] name = "ZD" -> zd
      [] name = "TH" -> th

Finished == IF calls = 0 THEN {} ELSE {sims[k] : k \in 1..(turn - 1)}

Returned == {x \in Finished : x = "SLG" => slg.error = ""}

AllFinished == calls >= 1 /\ turn > Len(sims)

\* Every vector handed out so far is a dict keyed by net id that gives every
\* primary input a value.
IdKeyed ==
    \A j \in DOMAIN vectors : vectors[j] \in FullVectors(circuit, logic_model)

PIs == Range(circuit.primary_inputs)

POs == Range(circuit.primary_outputs)

NetOf(name) == circuit.net_id_map[name]

\* The reference: every gate evaluated in gate order, as many rounds as there
\* are gates.  On an acyclic circuit a gate of depth d has its final value
\* after round d, so the result is the evaluation in topological order.
RECURSIVE eval_gates(_, _, _, _)
eval_gates(c, lm, values, k) ==
    IF k > Len(c.gates) THEN values
    ELSE eval_gates(c, lm,
                    [values EXCEPT ![c.gates[k].output] =
                        Gate_simulate(c.gates[k], values, lm)],
                    k + 1)

RECURSIVE settle(_, _, _, _)
settle(c, lm, values, rounds) ==
    IF rounds = 0 THEN values
    ELSE settle(c, lm, eval_gates(c, lm, values, 1), rounds - 1)

\* The primary-input values of the call that simulator x has ended: the value
\* the id-keyed vector gives, else the value stored when the call began.
InputsOf(x) ==
    [n \in 0..(circuit.next_net_id - 1) |->
        IF n \in PIs THEN vector_get(vec, n, SIM(x).old_values[n])
        ELSE SIM(x).net_values[n]]

TopologicalValues(x) ==
    settle(circuit, logic_model, InputsOf(x), Len(circuit.gates))

\* C1: after simulate_vector returns, every primary output of every one of
\* the five simulators stores the value of the evaluation of the gates in
\* topological order on the current primary-input values, in both logic
\* models, after any earlier vectors and on the first call (vectors keyed
\* by net id).
C1_OutputsAreTopological ==
    IdKeyed =>
        \A x \in Returned : \A o \in POs :
            SIM(x).net_values[o] = TopologicalValues(x)[o]

\* C2: after every vector of a sequence of id-keyed vectors, each of the
\* five simulators has logged an entry for it and the five entries are the
\* same map of primary outputs.
C2_LogsAgree ==
    (IdKeyed /\ AllFinished) =>
        /\ \A x \in Range(sims) : Len(SIM(x).output_log) = calls
        /\ \A x, y \in Range(sims) :
               SIM(x).output_log[calls] = SIM(y).output_log[calls]

\* C3: on AND(A,B)->Y in 2-valued mode, every simulator logs for every full
\* id-keyed vector, in any order and with any repetition, Y = 1 exactly when
\* the vector has A = 1 and B = 1, and Y = 0 otherwise.
C3_AndTruthTable ==
    (circuit = comb_basic /\ logic_model = "2val") =>
        \A x \in Finished :
            /\ Len(SIM(x).output_log) = calls
            /\ SIM(x).output_log[calls][NetOf("Y")] =
                   (IF vec.map[NetOf("A")] = LOGIC_ONE
                       /\ vec.map[NetOf("B")] = LOGIC_ONE
                    THEN LOGIC_ONE ELSE LOGIC_ZERO)

\* The gates reachable from a primary input through gates.
RECURSIVE reachable_gates(_, _, _)
reachable_gates(c, found, rounds) ==
    IF rounds = 0 THEN found
    ELSE reachable_gates(c,
             found \cup {k \in DOMAIN c.gates :
                 \E i \in Range(c.gates[k].inputs) :
                     \/ InSeq(i, c.primary_inputs)
                     \/ \E j \in found : c.gates[j].output = i},
             rounds - 1)

ReachableGates == reachable_gates(circuit, {}, Len(circuit.gates))

\* C4: in 2-valued mode, after the first call on a fresh simulator, whatever
\* the id-keyed vector (all inputs 0 included), the output net of every gate
\* reachable from a primary input holds the value the gate computes from the
\* stored values of its inputs.
C4_FirstCallPropagates ==
    (logic_model = "2val" /\ calls = 1 /\ IdKeyed) =>
        \A x \in Returned : \A k \in ReachableGates :
            SIM(x).net_values[circuit.gates[k].output] =
                Gate_simulate(circuit.gates[k], SIM(x).net_values, "2val")

\* The values on the inputs of gate g under the stored values.
InputValues(g, values) == {values[g.inputs[k]] : k \in DOMAIN g.inputs}

\* C5: in 3-valued mode, on the stored values of any simulator, an AND gate
\* evaluates to 0 whenever an input is 0, and to U only when no input is 0
\* and some input is U; an OR gate evaluates to 1 whenever an input is 1;
\* whatever the position of the controlling input.
C5_ControllingValueWins ==
    logic_model = "3val" =>
        \A x \in Range(sims) : \A k \in DOMAIN circuit.gates :
            LET g == circuit.gates[k]
                ins == InputValues(g, SIM(x).net_values)
                out == Gate_simulate(g, SIM(x).net_values, "3val")
            IN  /\ (g.type = "AND" /\ LOGIC_ZERO \in ins) => out = LOGIC_ZERO
                /\ (g.type = "AND" /\ out = LOGIC_U) =>
                       (LOGIC_ZERO \notin ins /\ LOGIC_U \in ins)
                /\ (g.type = "OR" /\ LOGIC_ONE \in ins) => out = LOGIC_ONE

\* C6: on a circuit with a two-gate feedback loop, an oscillating one
\* included, every call of ZeroDelaySimulator.simulate_vector that has begun
\* returns (the number of gate evaluations of a call is bounded).
C6_ZeroDelayTerminates == (zd.pc # "idle") ~> (zd.pc = "idle")

\* C7: when a vector is the same as the one before it (so the repeated call
\* is not the first call on the instance), every simulator has logged an
\* entry for each of the two calls, the two entries are equal, and the
\* second call returns no hazards.
C7_RepeatedVectorIsQuiet ==
    (calls >= 2 /\ IdKeyed /\ vectors[calls] = vectors[calls - 1]) =>
        \A x \in Finished :
            /\ Len(SIM(x).output_log) = calls
            /\ SIM(x).output_log[calls] = SIM(x).output_log[calls - 1]
            /\ SIM(x).hazards = << >>

\* C8: after a call with a map keyed by net name, every primary input named
\* in the map stores the mapped value, and every primary input absent from
\* the map stores the value it had when the call began.
C8_NamedInputsAreApplied ==
    \A x \in Finished :
        vec.keyed = "name" =>
            \A n \in PIs :
                SIM(x).net_values[n] =
                    (IF n \in DOMAIN vec.map THEN vec.map[n]
                     ELSE SIM(x).old_values[n])

\* C9: immediately after construction, every net value of every one of the
\* five simulators is 0 in 2-valued mode and U in 3-valued mode.
C9_InitialNetValues ==
    calls = 0 =>
        \A x \in Range(sims) : \A n \in 0..(circuit.next_net_id - 1) :
            SIM(x).net_values[n] =
                (IF logic_model = "3val" THEN LOGIC_U ELSE LOGIC_ZERO)

(***************************************************************************)
(* The cascade run of the example usage (src/src.py lines 507-537), with   *)
(* the vectors keyed by net id.                                            *)
(***************************************************************************)
Vector3(a, b, c) ==
    [keyed |-> "id",
     map |-> (NetOf("A") :> a @@ NetOf("B") :> b @@ NetOf("C") :> c)]

CascadeRun ==
    <<Vector3("0", "0", "0"), Vector3("1", "0", "0"),
      Vector3("1", "1", "0"), Vector3("1", "1", "1")>>

\* Y logged for the vectors of CascadeRun.
CascadeY == <<"0", "0", "1", "1">>

\* gate_sim_count of the Two-List simulator before the first call and after
\* each call of CascadeRun.
CascadeCounts == <<0, 2, 3, 5, 6>>

IsPrefix(s, t) == Len(s) <= Len(t) /\ \A j \in DOMAIN s : s[j] = t[j]

\* Successive vectors differ in exactly one primary input.
SingleChanges ==
    \A j \in 2..calls :
        Cardinality({n \in PIs : vectors[j].map[n] # vectors[j - 1].map[n]}) = 1

\* (A AND B) OR C on the vector v.
CascadeFunction(v) ==
    IF (v.map[NetOf("A")] = LOGIC_ONE /\ v.map[NetOf("B")] = LOGIC_ONE)
       \/ v.map[NetOf("C")] = LOGIC_ONE
    THEN LOGIC_ONE ELSE LOGIC_ZERO

\* C10: on the cascade, a fresh Two-List simulator in 2-valued mode run on
\* CascadeRun logs Y = 0, 0, 1, 1, returns no hazards, and its gate_sim_count
\* is 0 < 2 < 3 < 5 < 6, strictly larger after each call than before it; and
\* on any run whose successive vectors differ in exactly one input every
\* call returns no hazards and logs Y = (A AND B) OR C.
C10_CascadeTwoList ==
    (circuit = cascade /\ logic_model = "2val" /\ calls >= 1) =>
        /\ (IsPrefix(vectors, CascadeRun) /\ turn = 1 /\ tl.pc = "idle") =>
               tl.gate_sim_count = CascadeCounts[calls]
        /\ (IsPrefix(vectors, CascadeRun) /\ "TL" \in Finished) =>
               /\ Len(tl.output_log) = calls
               /\ \A j \in 1..calls : tl.output_log[j][NetOf("Y")] = CascadeY[j]
               /\ tl.hazards = << >>
               /\ tl.gate_sim_count = CascadeCounts[calls + 1]
               /\ CascadeCounts[calls + 1] > CascadeCounts[calls]
        /\ (SingleChanges /\ "TL" \in Finished) =>
               /\ Len(tl.output_log) = calls
               /\ tl.output_log[calls][NetOf("Y")] = CascadeFunction(vec)
               /\ tl.hazards = << >>

\* The four vectors of CascadeRun applied, the last call returned.
C10_CascadeRunDone ==
    /\ circuit = cascade /\ logic_model = "2val"
    /\ vectors = CascadeRun /\ "TL" \in Finished
    /\ tl.output_log[4][NetOf("Y")] = LOGIC_ONE
    /\ tl.gate_sim_count = 6

(***************************************************************************)
(* The run of the expected outputs of the multi-level circuit, the vectors *)
(* keyed by net id.                                                        *)
(***************************************************************************)
Vector4(a, b, c, d) ==
    [keyed |-> "id",
     map |-> (NetOf("A") :> a @@ NetOf("B") :> b @@ NetOf("C") :> c
              @@ NetOf("D") :> d)]

MultiRun ==
    <<Vector4("1", "1", "0", "1"), Vector4("0", "1", "0", "0"),
      Vector4("1", "1", "0", "0")>>

\* (A AND B) XOR (C OR D) on the vector v.
MultiFunction(v) ==
    LET x1 == v.map[NetOf("A")] = LOGIC_ONE /\ v.map[NetOf("B")] = LOGIC_ONE
        x2 == v.map[NetOf("C")] = LOGIC_ONE \/ v.map[NetOf("D")] = LOGIC_ONE
    IN  IF x1 # x2 THEN LOGIC_ONE ELSE LOGIC_ZERO

\* C11: on the multi-level circuit in 2-valued mode, after any sequence of
\* id-keyed vectors a Zero-Delay simulator that was fresh at its start has
\* logged one entry per vector, and the Y of the last entry is
\* (A AND B) XOR (C OR D) of the vector just applied; so Y = 0 for
\* {A:1,B:1,C:0,D:1}, 0 for {A:0,B:1,C:0,D:0} and 1 for {A:1,B:1,C:0,D:0}.
C11_MultiLevelZeroDelay ==
    (circuit = multi_level /\ IdKeyed /\ "ZD" \in Finished) =>
        /\ Len(zd.output_log) = calls
        /\ zd.output_log[calls][NetOf("Y")] = MultiFunction(vec)
        /\ vec = Vector4("1", "1", "0", "1") =>
               zd.output_log[calls][NetOf("Y")] = LOGIC_ZERO
        /\ vec = Vector4("0", "1", "0", "0") =>
               zd.output_log[calls][NetOf("Y")] = LOGIC_ZERO
        /\ vec = Vector4("1", "1", "0", "0") =>
               zd.output_log[calls][NetOf("Y")] = LOGIC_ONE

\* The three vectors of MultiRun applied in a row, the last call returned
\* with Y = 0, 0, 1 logged.
C11_MultiRunDone ==
    /\ circuit = multi_level /\ vectors = MultiRun /\ "ZD" \in Finished
    /\ zd.output_log[1][NetOf("Y")] = LOGIC_ZERO
    /\ zd.output_log[2][NetOf("Y")] = LOGIC_ZERO
    /\ zd.output_log[3][NetOf("Y")] = LOGIC_ONE

\* The queues, buckets or stacks of simulator x hold nothing.
QueuesEmpty(x) ==
    CASE x = "TL" -> tl.event_queue = << >> /\ tl.gate_queue = << >>
      [] x = "SLE" -> sle.event_queue = << >>
      [] x = "SLG" -> slg.gate_queue = << >>
      [] x = "ZD" -> \A l \in DOMAIN zd.level_queues : zd.level_queues[l] = << >>
      [] x = "TH" -> th.event_stack = << >> /\ th.gate_stack = << >>

\* The call of simulator x on the current vector ended by returning.
EndedByReturn(x) ==
    SIM(x).pc = "idle" /\ QueuesEmpty(x) /\ (x = "SLG" => slg.error = "")

EndedCalls(x) ==
    IF x \in Finished THEN calls ELSE IF calls = 0 THEN 0 ELSE calls - 1

\* This step ends a call of simulator x by a return.
ReturnStep(x) ==
    /\ SIM(x).pc # "idle" /\ SIM(x).pc' = "idle"
    /\ x = "SLG" => slg.error' = ""

\* C13: for every simulator the length of output_log is the number of calls
\* completed on it: the log starts empty, the step that completes a call
\* appends one entry, the map of every primary output to its stored value
\* at the end of the call, and leaves the earlier entries as they are, and
\* no other step touches the log; a simulator none of whose calls raised has
\* as many entries as calls that ended.
C13_OneEntryPerCompletedCall ==
    /\ [](\A x \in Range(sims) :
             /\ calls = 0 => SIM(x).output_log = << >>
             /\ Len(SIM(x).output_log) <= EndedCalls(x)
             /\ x # "SLG" => Len(SIM(x).output_log) = EndedCalls(x))
    /\ [][\A x \in Range(sims) :
             IF ReturnStep(x)
             THEN SIM(x).output_log' =
                      Append(SIM(x).output_log,
                             [o \in POs |-> SIM(x).net_values'[o]])
             ELSE SIM(x).output_log' = SIM(x).output_log]_vars

\* Three vectors applied to all simulators: three entries where every call
\* returned, two in Single-List Gate, one call of which raised.
C13_LogsAfterThreeCalls ==
    /\ calls = 3 /\ AllFinished
    /\ Len(tl.output_log) = 3 /\ Len(zd.output_log) = 3
    /\ Len(slg.output_log) = 2

\* C14: for Zero-Delay, on any circuit and after any calls, intermediate_log
\* is empty and the hazard list of every call is empty, whatever the number
\* of changes of a net during a call.
C14_ZeroDelayReportsNothing ==
    zd.intermediate_log = << >> /\ zd.hazards = << >>

\* The latch behind two inverters after {A:1,R:1}, {A:0,R:0}, {A:1,R:1}:
\* the third call changed Q twice (1 in the first sweep, 0 in the second)
\* and returned, 13 gates evaluated in all.
C14_NetChangedTwice ==
    /\ circuit = loop_fed /\ "ZD" \in Finished
    /\ vectors = <<[keyed |-> "id", map |-> (NetOf("A") :> "1" @@ NetOf("R") :> "1")],
                   [keyed |-> "id", map |-> (NetOf("A") :> "0" @@ NetOf("R") :> "0")],
                   [keyed |-> "id", map |-> (NetOf("A") :> "1" @@ NetOf("R") :> "1")]>>
    /\ zd.gate_sim_count = 13
    /\ zd.net_values[NetOf("Q")] = zd.old_values[NetOf("Q")]

\* The number of gates simulator x evaluates (calls of Gate.simulate) in the
\* step taken from the current state: Two-List, Zero-Delay and Threaded one
\* per gate taken off the gate queue, bucket or gate stack; Single-List Event
\* every fanout gate of the event taken off the queue; Single-List Gate one
\* per gate taken off the queue, if the call goes on past the marker test.
Evaluations(x) ==
    CASE x = "TL" ->
            IF tl.pc = "gates" /\ tl.gate_queue # << >> THEN 1 ELSE 0
      [] x = "SLE" ->
            IF sle.pc = "loop" /\ sle.event_queue # << >>
               /\ ~Head(sle.event_queue).marker
            THEN Len(fanout_of(circuit, Head(sle.event_queue).net)) ELSE 0
      [] x = "SLG" ->
            IF slg.pc = "loop" /\ slg.gate_queue # << >>
               /\ Head(slg.gate_queue) # GATE_MARKER /\ slg.pc' = "loop"
            THEN 1 ELSE 0
      [] x = "ZD" ->
            IF zd.pc = "sweep" /\ zd.lvl <= zd.max_level
               /\ zd.level_queues[zd.lvl] # << >>
            THEN 1 ELSE 0
      [] x = "TH" ->
            IF th.pc = "loop" /\ th.event_stack = << >> /\ th.gate_stack # << >>
            THEN 1 ELSE 0

\* C15: gate_sim_count of every simulator never decreases, and every step
\* adds to it exactly the number of gates evaluated in the step, so that a
\* call adds the number of gate evaluations made during the call.
C15_CountGrowsByEvaluations ==
    [][\A x \in Range(sims) :
          /\ SIM(x).gate_sim_count' >= SIM(x).gate_sim_count
          /\ SIM(x).gate_sim_count' = SIM(x).gate_sim_count + Evaluations(x)]_vars

\* Two vectors applied, gates evaluated by the four simulators that
\* evaluate any.
C15_GatesCounted ==
    /\ calls = 2 /\ AllFinished
    /\ tl.gate_sim_count >= 3 /\ sle.gate_sim_count > tl.gate_sim_count
    /\ zd.gate_sim_count >= 1 /\ th.gate_sim_count >= 1

\* The simulators that detect hazards, the nets, and the step that begins a
\* call of simulator x.
HazardSims == Range(sims) \cap {"TL", "SLE", "SLG", "TH"}

Nets == 0..(circuit.next_net_id - 1)

CallStep(x) == SIM(x).pc = "idle" /\ SIM(x).pc' # "idle"

GateDriven(n) == \E k \in DOMAIN circuit.gates : circuit.gates[k].output = n

\* The hazard list hs names net n exactly when count[n] > 1, once, tagged
\* static when the value of n is its value at call entry, dynamic otherwise.
HazardsAre(hs, count, old_values, net_values) ==
    \A n \in Nets :
        LET at == {k \in DOMAIN hs : hs[k][1] = n}
        IN  /\ (at # {}) <=> (count[n] > 1)
            /\ Cardinality(at) <= 1
            /\ \A k \in at :
                   hs[k][2] = (IF net_values[n] = old_values[n]
                               THEN "static" ELSE "dynamic")

\* C16: for Two-List, Single-List Event, Single-List Gate and Threaded, the
\* hazard list a call returns names net n exactly when the stored value of n
\* changed more than once during the call, names it once, and tags it static
\* exactly when the value at return is the value at call entry.  In steps:
\* the call begins with the entry values saved and the counts at 0 (earlier
\* calls do not count); every later step of the call counts each net whose
\* stored value it changes, once; the inputs Single-List Gate commits
\* uncounted when the call begins are not driven by a gate and are not
\* counted or changed again; the returned list is read off the counts.
C16_HazardsAreTheRepeatedChanges ==
    /\ [](slg.change_count # << >> =>
             \A n \in PIs : ~GateDriven(n) /\ slg.change_count[n] = 0)
    /\ [][\A x \in HazardSims :
             /\ CallStep(x) =>
                    /\ SIM(x).old_values' = SIM(x).net_values
                    /\ \A n \in Nets : SIM(x).change_count'[n] = 0
                    /\ x # "SLG" => SIM(x).net_values' = SIM(x).net_values
                    /\ \A n \in Nets :
                           SIM(x).net_values'[n] # SIM(x).net_values[n] => n \in PIs
             /\ SIM(x).pc # "idle" =>
                    /\ SIM(x).old_values' = SIM(x).old_values
                    /\ \A n \in Nets :
                           SIM(x).change_count'[n] =
                               SIM(x).change_count[n]
                               + (IF SIM(x).net_values'[n] # SIM(x).net_values[n]
                                  THEN 1 ELSE 0)
             /\ ReturnStep(x) =>
                    HazardsAre(SIM(x).hazards', SIM(x).change_count,
                               SIM(x).old_values, SIM(x).net_values')]_vars

\* A call of Two-List returned a static hazard on a net it changed twice.
C16_HazardReported ==
    /\ "TL" \in Finished /\ tl.hazards # << >>
    /\ tl.hazards[1][2] = "static"
    /\ tl.change_count[tl.hazards[1][1]] = 2

\* C17: in Single-List Gate, between two markers no stored net value
\* changes: the step that takes a gate off the queue evaluates it on the
\* stored values, leaves them and the counts as they are and holds a changed
\* output value in the pending map; the step that takes the marker off
\* commits the pending values, counts those that change a net, and empties
\* the map.
C17_PendingUntilMarker ==
    [][(slg.pc = "loop" /\ slg.gate_queue # << >>) =>
          IF Head(slg.gate_queue) # GATE_MARKER
          THEN LET g == gate_of(circuit, Head(slg.gate_queue))
                   new_val == Gate_simulate(g, slg.net_values, logic_model)
               IN  /\ slg.net_values' = slg.net_values
                   /\ slg.change_count' = slg.change_count
                   /\ new_val # slg.net_values[g.output] =>
                          /\ g.output \in DOMAIN slg.temp_net_values'
                          /\ slg.temp_net_values'[g.output] = new_val
          ELSE /\ \A n \in Nets :
                      /\ slg.net_values'[n] =
                             (IF n \in DOMAIN slg.temp_net_values
                              THEN slg.temp_net_values[n] ELSE slg.net_values[n])
                      /\ slg.change_count'[n] =
                             slg.change_count[n]
                             + (IF slg.net_values'[n] # slg.net_values[n]
                                THEN 1 ELSE 0)
               /\ slg.temp_net_values' = << >>]_vars

\* No element of the sequence s occurs in it twice.
NoDuplicates(s) == \A i, j \in DOMAIN s : s[i] = s[j] => i = j

\* C18: in Two-List the gate queue never holds a gate twice and is empty
\* outside the event and gate phases; in the event phase a gate enters the
\* queue only with the draining of an event on one of its input nets; in the
\* gate phase the queue only loses its head, the one gate evaluated by the
\* step, so a gate is evaluated at most once in a phase and only if an event
\* on one of its inputs was drained in the event phase just before.
C18_GateQueueHoldsEachGateOnce ==
    /\ [](/\ NoDuplicates(tl.gate_queue)
          /\ tl.pc \in {"idle", "outer"} => tl.gate_queue = << >>)
    /\ [][/\ tl.pc = "events" =>
                \A g \in Range(tl.gate_queue') \ Range(tl.gate_queue) :
                    /\ tl.event_queue # << >>
                    /\ tl.event_queue' = Tail(tl.event_queue)
                    /\ InSeq(Head(tl.event_queue).net,
                             gate_of(circuit, g).inputs)
          /\ tl.pc = "gates" =>
                \/ tl.gate_queue' = tl.gate_queue
                \/ tl.gate_queue # << >> /\ tl.gate_queue' = Tail(tl.gate_queue)
          /\ tl.gate_sim_count' # tl.gate_sim_count =>
                /\ tl.pc = "gates" /\ tl.gate_queue # << >>
                /\ tl.gate_queue' = Tail(tl.gate_queue)
                /\ tl.gate_sim_count' = tl.gate_sim_count + 1]_vars

\* AND(A,B)->Y: events on both inputs of the gate drained in one event
\* phase, the gate queued once for the gate phase.
C18_GateQueuedOnceForTwoEvents ==
    /\ circuit = comb_basic /\ tl.pc = "gates"
    /\ tl.change_count[NetOf("A")] = 1 /\ tl.change_count[NetOf("B")] = 1
    /\ tl.gate_queue = <<0>>

\* The gates (by id), the gates driving an input of gate g, the gates
\* upstream of a set of gates, and the circuits without a loop and with at
\* most one driver per net.
GateIds == 0..(Len(circuit.gates) - 1)

DriversOf(g) ==
    {d \in GateIds : InSeq(gate_of(circuit, d).output, gate_of(circuit, g).inputs)}

RECURSIVE upstream(_, _)
upstream(gs, rounds) ==
    IF rounds = 0 THEN gs
    ELSE upstream(gs \cup UNION {DriversOf(g) : g \in gs}, rounds - 1)

Acyclic == \A g \in GateIds : g \notin upstream(DriversOf(g), Len(circuit.gates))

SingleDriver ==
    \A n \in Nets :
        Cardinality({d \in GateIds : gate_of(circuit, d).output = n}) <= 1

\* The gates queued in the level buckets of Zero-Delay.
Queued(level_queues) == UNION {Range(level_queues[l]) : l \in DOMAIN level_queues}

\* C19: on an acyclic circuit a call of Zero-Delay never sets the
\* iterate-again flag and makes exactly one sweep; a gate is queued in the
\* bucket of its level, once; the buckets below the level being drained are
\* empty and a step of the sweep queues gates only at levels above the one
\* being drained, so a gate is evaluated at most once in a call; and when a
\* gate is evaluated no gate driving one of its inputs is still queued.
C19_OneSweepOnAcyclic ==
    /\ [](Acyclic =>
              /\ zd.iteration => (zd.pc = "while" /\ zd.pass_num = 0)
              /\ zd.pass_num <= 1
              /\ "ZD" \in Finished => zd.pass_num = 1
              /\ \A l \in DOMAIN zd.level_queues :
                     /\ NoDuplicates(zd.level_queues[l])
                     /\ \A g \in Range(zd.level_queues[l]) :
                            ZD_level(zd.levels, g) = l
                     /\ (zd.pc = "sweep" /\ l < zd.lvl) =>
                            zd.level_queues[l] = << >>
              /\ (zd.pc = "sweep" /\ zd.lvl <= zd.max_level
                  /\ zd.level_queues[zd.lvl] # << >>) =>
                     DriversOf(Head(zd.level_queues[zd.lvl]))
                         \cap Queued(zd.level_queues) = {})
    /\ [][(Acyclic /\ zd.pc = "sweep") =>
              \A l \in DOMAIN zd.level_queues :
                  \A g \in Range(zd.level_queues'[l])
                               \ Range(zd.level_queues[l]) : l > zd.lvl]_vars

\* NOT(A)->B, NOT(B)->C, AND(B,C)->Y: the sweep has drained level 0, where
\* the change of B queued the two gates it feeds, at levels 1 and 2.
C19_FanoutQueuedAbove ==
    /\ circuit = uneven /\ zd.pc = "sweep" /\ zd.lvl = 0
    /\ zd.level_queues = (0 :> << >> @@ 1 :> <<1>> @@ 2 :> <<2>>)
    /\ zd.iteration = FALSE

\* C20: on an acyclic circuit with at most one driver per net the
\* levelization of Zero-Delay gives every gate a level: 0 exactly to the
\* gates with no gate-driven input, and to any other gate a level above the
\* level of each of its drivers, one more than the largest of them; max_level
\* is the largest level.
C20_LevelsAreDepths ==
    (Acyclic /\ SingleDriver) =>
        /\ DOMAIN zd.levels = GateIds
        /\ \A g \in GateIds :
               /\ zd.levels[g] \in Nat
               /\ zd.levels[g] = 0 <=> DriversOf(g) = {}
               /\ \A d \in DriversOf(g) : zd.levels[d] < zd.levels[g]
               /\ DriversOf(g) # {} =>
                      \E d \in DriversOf(g) : zd.levels[g] = zd.levels[d] + 1
               /\ zd.levels[g] <= zd.max_level
        /\ \/ \E g \in GateIds : zd.levels[g] = zd.max_level
           \/ GateIds = {} /\ zd.max_level = 0

\* NOT(A)->B, NOT(B)->C, AND(B,C)->Y: the drivers of the AND gate are of
\* levels 0 and 1, the gate of level 2.
C20_UnevenLevels ==
    /\ circuit = uneven /\ Acyclic /\ SingleDriver
    /\ zd.levels = (0 :> 0 @@ 1 :> 1 @@ 2 :> 2)
    /\ zd.max_level = 2
    /\ "ZD" \in Finished

\* The pending event records of a queue of Single-List (Event): the entries
\* that are not the time-marker, as (net, value) pairs in queue order.
RECURSIVE Pending(_)
Pending(event_queue) ==
    IF event_queue = << >> THEN << >>
    ELSE IF Head(event_queue).marker THEN Pending(Tail(event_queue))
         ELSE <<<<Head(event_queue).net, Head(event_queue).value>>>>
                  \o Pending(Tail(event_queue))

\* C21: with a primary-input list without repeats, the queue of Single-List
\* (Event) never holds two pending events with the same (net, value), the
\* markers aside; and the step that consumes an event appends to the rest of
\* the queue only events that were not pending in it, each for the output of
\* a fanout gate of the consumed net and the value the gate computes.
C21_NoTwinPendingEvents ==
    /\ [](NoDuplicates(circuit.primary_inputs) =>
              NoDuplicates(Pending(sle.event_queue)))
    /\ [][(/\ NoDuplicates(circuit.primary_inputs)
           /\ sle.pc = "loop" /\ sle.event_queue # << >>
           /\ ~Head(sle.event_queue).marker) =>
              LET rest == Tail(sle.event_queue)
              IN  /\ IsPrefix(rest, sle.event_queue')
                  /\ \A k \in (Len(rest) + 1)..Len(sle.event_queue') :
                         LET e == sle.event_queue'[k]
                         IN  /\ ~e.marker
                             /\ ~SLE_exists(rest, e.net, e.value)
                             /\ \E j \in DOMAIN fanout_of(circuit, Head(sle.event_queue).net) :
                                    LET g == gate_of(circuit,
                                                 fanout_of(circuit, Head(sle.event_queue).net)[j])
                                    IN  /\ g.output = e.net
                                        /\ e.value = Gate_simulate(g, sle.net_values',
                                                                   logic_model)
                                        /\ e.value # sle.net_values'[e.net]]_vars

\* OR(A,B)->Y: the events A=1 and B=1 are consumed; the first queued Y=1,
\* the second computed Y=1 again while it was pending and queued nothing.
C21_TwinSuppressed ==
    /\ circuit = or_basic /\ sle.pc = "loop" /\ sle.gate_sim_count = 2
    /\ sle.net_values[NetOf("A")] = LOGIC_ONE
    /\ sle.net_values[NetOf("B")] = LOGIC_ONE
    /\ sle.net_values[NetOf("Y")] # LOGIC_ONE
    /\ sle.event_queue = <<MARKER, [marker |-> FALSE, net |-> NetOf("Y"),
                                    value |-> LOGIC_ONE]>>

\* Two vectors for the cascade circuit (A AND B) OR C: the second raises A
\* and lowers C at once.
HazardRun == <<Vector3("0", "1", "1"), Vector3("1", "1", "0")>>

\* C22: the last-in first-out order of Threaded hides a hazard that the
\* breadth-first Two-List reports.  On the acyclic cascade circuit, after
\* the two vectors of HazardRun, both simulators entered the second call with
\* the same net values and left it with the same net values, yet Two-List
\* returned a static hazard on Y and Threaded returned no hazard.
C22_LifoHidesHazard ==
    (/\ circuit = cascade /\ logic_model = "2val"
     /\ vectors = HazardRun /\ {"TL", "TH"} \subseteq Finished) =>
        /\ Acyclic
        /\ tl.old_values = th.old_values
        /\ tl.net_values = th.net_values
        /\ tl.hazards = <<<<NetOf("Y"), "static">>>>
        /\ th.hazards = << >>

\* Both simulators have returned from the second call of HazardRun, from
\* the same net values to the same net values, with different hazard lists.
C22_HazardListsDiffer ==
    /\ circuit = cascade /\ logic_model = "2val"
    /\ vectors = HazardRun /\ {"TL", "TH"} \subseteq Finished
    /\ tl.old_values = th.old_values
    /\ tl.old_values[NetOf("A")] = LOGIC_ZERO /\ tl.old_values[NetOf("Y")] = LOGIC_ONE
    /\ tl.net_values = th.net_values
    /\ tl.hazards # th.hazards

\* The net values in which every gate-driven net holds the value its gate
\* computes from the values of its input nets.
Consistent(net_values) ==
    \A g \in GateIds :
        net_values[gate_of(circuit, g).output] =
            Gate_simulate(gate_of(circuit, g), net_values, logic_model)

\* C23: on an acyclic circuit with at most one driver per net, a call of
\* Two-List with a vector keyed by net id that was entered with consistent
\* net values (old_values is the copy taken at entry) returns with
\* consistent net values.
C23_ConsistencyIsPreserved ==
    (/\ Acyclic /\ SingleDriver
     /\ "TL" \in Finished /\ vec.keyed = "id"
     /\ Consistent(tl.old_values)) =>
        Consistent(tl.net_values)

\* (A AND B) OR C: a call entered with consistent values has returned with
\* other values, Y having changed twice on the way, and they are consistent.
C23_ConsistentAfterGlitch ==
    /\ circuit = cascade /\ Acyclic /\ SingleDriver
    /\ "TL" \in Finished /\ vec.keyed = "id"
    /\ Consistent(tl.old_values)
    /\ tl.old_values # tl.net_values
    /\ tl.change_count[NetOf("Y")] = 2
    /\ Consistent(tl.net_values)

=============================================================================
